---- MODULE Spec2Model ----
(***************************************************************************)
(* Archive location and mounting of Source/init.cpp (packed-archive build, *)
(* !UNPACKED_MPQS, on a unix desktop: __unix__ && !__ANDROID__).            *)
(*                                                                         *)
(* A std::string is a sequence of tokens.  The tokens of the strings that  *)
(* the environment supplies are single characters; the string literals of  *)
(* the program are one token each, so that operator+ / append is \o and    *)
(* operator== is equality of sequences.                                    *)
(***************************************************************************)
EXTENDS Naturals, Sequences, FiniteSets, TLC

VARIABLES
    basePath,       \* paths::BasePath()
    prefPath,       \* paths::PrefPath()
    configPath,     \* paths::ConfigPath()
    xdgDataDirs,    \* std::getenv("XDG_DATA_DIRS"): [set |-> BOOLEAN, value |-> string]
    fs,             \* the archive files on disk: absolute path -> "ok" | "corrupt" (absent otherwise)
    languageCode,   \* GetLanguageCode()
    HeadlessMode,
    gbIsMultiplayer,
    gbRunGame,
    mpq,            \* the std::optional<MpqArchive> globals, by name
    gbBard,
    gbBarbarian,
    exitStatus,     \* Running, or the status the process ended with
    lastOp,         \* the entry point that ran last, or what the environment did last
    log,            \* what the last entry point did, in order
    peakLive,       \* per slot: the most archives of that slot open at once during the last entry point
    scenario,       \* which part of the environment changes during this run
    searchPaths,    \* result of the last direct call of GetMPQSearchPaths
    archive,        \* result of the last direct call of LoadMPQ
    repeated,       \* the last entry point ran right after a run of the same entry point
    gbActive,       \* "True if the game is the current active window"
    sgbMouseDown,
    LastMouseButtonAction,
    gamePaused,     \* diablo_focus_pause() was called last, not diablo_focus_unpause()
    windowCreated,  \* init_create_window has run
    lastEvent       \* the event MainWndProc handled last

vars == <<basePath, prefPath, configPath, xdgDataDirs, fs, languageCode, HeadlessMode,
          gbIsMultiplayer, gbRunGame, mpq, gbBard, gbBarbarian, exitStatus, lastOp, log,
          peakLive, scenario, searchPaths, archive, repeated, gbActive, sgbMouseDown,
          LastMouseButtonAction, gamePaused, windowCreated, lastEvent>>

winVars == <<gbActive, sgbMouseDown, LastMouseButtonAction, gamePaused, windowCreated, lastEvent>>
envVars == <<basePath, prefPath, configPath, xdgDataDirs>>
optVars == <<languageCode, HeadlessMode, gbIsMultiplayer, gbRunGame>>
progVars == <<mpq, gbBard, gbBarbarian, exitStatus, peakLive>>

----------------------------------------------------------------------------
(* Bounds *)

\* longest value of XDG_DATA_DIRS, in characters
MaxEnvLen == 4

----------------------------------------------------------------------------
(* Strings *)

EmptyString == <<>>

Slash == "/"
Colon == ":"

\* the characters the environment variable is made of
EnvChars == {Slash, Colon, "a"}

RECURSIVE StringsUpTo(_)
StringsUpTo(n) ==
    IF n = 0 THEN {EmptyString}
    ELSE LET shorter == StringsUpTo(n - 1)
         IN  shorter \cup {Append(s, c) : s \in {t \in shorter : Len(t) = n - 1}, c \in EnvChars}

ProjectDir == <<"shadowed-pilgrims/shadow-of-the-west/">>
UsrLocalShare == <<"/usr/local/share/">> \o ProjectDir
UsrShare == <<"/usr/share/">> \o ProjectDir

\* Index of the first occurrence of c in text, Len(text) + 1 when there is none
\* (string_view::find, with npos read as "to the end").
RECURSIVE FindChar(_, _, _)
FindChar(text, c, i) ==
    IF i > Len(text) THEN i
    ELSE IF text[i] = c THEN i
    ELSE FindChar(text, c, i + 1)

\* The slices SplitByChar iterates over: the text between separators; the
\* iteration ends when the remaining text is empty, so a trailing separator
\* yields no empty last slice and the empty text yields nothing.
RECURSIVE SplitByChar(_, _)
SplitByChar(text, c) ==
    IF text = EmptyString THEN <<>>
    ELSE LET i == FindChar(text, c, 1)
             rest == IF i >= Len(text) THEN EmptyString ELSE SubSeq(text, i + 1, Len(text))
         IN  <<SubSeq(text, 1, i - 1)>> \o SplitByChar(rest, c)

PopBack(v) == SubSeq(v, 1, Len(v) - 1)

----------------------------------------------------------------------------
(* GetMPQSearchPaths *)

\* init.cpp:123-127: one XDG_DATA_DIRS entry made into a search root
XdgRoot(path) ==
    LET fullPath == IF path # EmptyString /\ path[Len(path)] # Slash
                    THEN Append(path, Slash) ELSE path
    IN  fullPath \o ProjectDir

\* init.cpp:117-132
PlatformPaths(xdg) ==
    IF xdg.set
    THEN LET parts == SplitByChar(xdg.value, Colon)
         IN  [i \in 1..Len(parts) |-> XdgRoot(parts[i])]
    ELSE <<UsrLocalShare, UsrShare>>

\* config compared with the base path alone
RootPaths_ConfigNotComparedWithPref(base, pref, config) ==
    LET p1 == <<base, pref>>
        p2 == IF p1[1] = p1[2] THEN PopBack(p1) ELSE p1
        p3 == Append(p2, config)
    IN  IF p3[1] = p3[2] \/ (Len(p3) = 3 /\ p3[1] = p3[3])
        THEN PopBack(p3) ELSE p3

\* init.cpp:109-115: base, pref and config, each dropped when it repeats an earlier one
RootPaths(base, pref, config) ==
    LET p1 == <<base, pref>>
        p2 == IF p1[1] = p1[2] THEN PopBack(p1) ELSE p1
        p3 == Append(p2, config)
    IN  IF p3[1] = p3[2] \/ (Len(p3) = 3 /\ (p3[1] = p3[3] \/ p3[2] = p3[3]))
        THEN PopBack(p3) ELSE p3

GetMPQSearchPaths(base, pref, config, xdg) ==
    Append(RootPaths(base, pref, config) \o PlatformPaths(xdg), EmptyString)

----------------------------------------------------------------------------
(* The search path builder on its own: every environment, one call *)

Running == "running"
NullOpt == <<>>

Slots == {"spawn", "diabdat", "hellfire", "hfmonk", "hfbard", "hfbarb",
          "hfmusic", "hfvoice", "sotw", "lang", "font"}

NotCalled == <<"not called">>

\* directories the path provider may report
ProviderDirs == {EmptyString, <<Slash, "a", Slash>>, <<"a", Slash>> \o ProjectDir, UsrShare}

EnvValues == [set : {TRUE}, value : StringsUpTo(MaxEnvLen)] \cup {[set |-> FALSE, value |-> EmptyString]}

InitProgram ==
    /\ mpq = [s \in Slots |-> NullOpt]
    /\ gbBard = FALSE
    /\ gbBarbarian = FALSE
    /\ exitStatus = Running
    /\ lastOp = "start"
    /\ log = <<>>
    /\ peakLive = [s \in Slots |-> 0]
    /\ searchPaths = NotCalled
    /\ archive = NullOpt
    /\ repeated = FALSE
    /\ gbActive = FALSE
    /\ sgbMouseDown = "CLICK_NONE"
    /\ LastMouseButtonAction = "None"
    /\ gamePaused = FALSE
    /\ windowCreated = FALSE
    /\ lastEvent = "none"

InitPaths ==
    /\ basePath \in ProviderDirs
    /\ prefPath \in ProviderDirs
    /\ configPath \in ProviderDirs
    /\ xdgDataDirs \in EnvValues
    /\ fs = <<>>
    /\ languageCode = "en"
    /\ HeadlessMode = FALSE
    /\ gbIsMultiplayer = FALSE
    /\ gbRunGame = FALSE
    /\ scenario = "paths"
    /\ InitProgram

CallGetMPQSearchPaths ==
    /\ lastOp = "start"
    /\ searchPaths' = GetMPQSearchPaths(basePath, prefPath, configPath, xdgDataDirs)
    /\ lastOp' = "GetMPQSearchPaths"
    /\ repeated' = FALSE
    /\ UNCHANGED <<winVars, envVars, optVars, progVars, fs, log, scenario, archive>>

NextPaths == CallGetMPQSearchPaths

SpecPaths == InitPaths /\ [][NextPaths]_vars

----------------------------------------------------------------------------
(* The disk and MpqArchive::Open *)

Status == {"absent", "ok", "corrupt"}

FileStatus(disk, absPath) == IF absPath \in DOMAIN disk THEN disk[absPath] ELSE "absent"

\* MpqArchive::Open(path, error): the archive and error 0 when the file opens,
\* no archive and a nonzero error when the file is there and is no valid
\* archive, no archive and error 0 when the file is absent.  An open archive
\* is known by the path it was opened from.
Open(disk, absPath) ==
    LET st == FileStatus(disk, absPath)
    IN  [archive |-> IF st = "ok" THEN absPath ELSE NullOpt,
         error   |-> IF st = "corrupt" THEN 1 ELSE 0]

Event(kind, name, path) == [kind |-> kind, name |-> name, path |-> path]

----------------------------------------------------------------------------
(* LoadMPQ *)

\* the loop ended by the first structural error
RECURSIVE LoadMPQFrom_StopsAtError(_, _, _, _, _, _)
LoadMPQFrom_StopsAtError(disk, paths, mpqName, i, error, events) ==
    IF i > Len(paths)
    THEN [archive |-> NullOpt,
          events  |-> IF error = 0
                      THEN Append(events, Event("LogVerbose Missing", mpqName, EmptyString))
                      ELSE events]
    ELSE LET mpqAbsPath == paths[i] \o mpqName
             opened == Open(disk, mpqAbsPath)
             tried == Append(events, Event("Open", mpqName, paths[i]))
         IN  IF opened.archive # NullOpt
             THEN [archive |-> opened.archive,
                   events  |-> Append(tried, Event("LogVerbose Found", mpqName, paths[i]))]
             ELSE IF opened.error # 0
             THEN [archive |-> NullOpt,
                   events  |-> Append(tried, Event("LogError", mpqName, paths[i]))]
             ELSE LoadMPQFrom_StopsAtError(disk, paths, mpqName, i + 1, opened.error, tried)

\* init.cpp:88-102: the loop from the i-th search path on, `error` being the
\* value the variable holds when the iteration starts, and what follows the loop
RECURSIVE LoadMPQFrom(_, _, _, _, _, _)
LoadMPQFrom(disk, paths, mpqName, i, error, events) ==
    IF i > Len(paths)
    THEN [archive |-> NullOpt,
          events  |-> IF error = 0
                      THEN Append(events, Event("LogVerbose Missing", mpqName, EmptyString))
                      ELSE events]
    ELSE LET mpqAbsPath == paths[i] \o mpqName
             opened == Open(disk, mpqAbsPath)
             tried == Append(events, Event("Open", mpqName, paths[i]))
         IN  IF opened.archive # NullOpt
             THEN [archive |-> opened.archive,
                   events  |-> Append(tried, Event("LogVerbose Found", mpqName, paths[i]))]
             ELSE LoadMPQFrom(disk, paths, mpqName, i + 1, opened.error,
                              IF opened.error # 0
                              THEN Append(tried, Event("LogError", mpqName, paths[i]))
                              ELSE tried)

\* init.cpp:83-103
LoadMPQ(disk, paths, mpqName) == LoadMPQFrom(disk, paths, mpqName, 1, 0, <<>>)

----------------------------------------------------------------------------
(* LoadMPQ on its own: every disk over three search paths, one call *)

SotwMpq == <<"sotw.mpq">>
FontsMpq == <<"fonts.mpq">>

FilesOf(paths, names) == {paths[i] \o n : i \in 1..Len(paths), n \in names}

ResolveNames == {SotwMpq, FontsMpq}

InitResolve ==
    /\ basePath \in {<<Slash, "a", Slash>>, EmptyString}
    /\ prefPath = basePath
    /\ configPath = basePath
    /\ xdgDataDirs = [set |-> TRUE, value |-> <<"a">>]
    /\ fs \in [FilesOf(GetMPQSearchPaths(basePath, prefPath, configPath, xdgDataDirs),
                       ResolveNames) -> Status]
    /\ languageCode = "en"
    /\ HeadlessMode = FALSE
    /\ gbIsMultiplayer = FALSE
    /\ gbRunGame = FALSE
    /\ scenario = "resolve"
    /\ InitProgram

CallLoadMPQ(mpqName) ==
    /\ lastOp = "start"
    /\ LET paths == GetMPQSearchPaths(basePath, prefPath, configPath, xdgDataDirs)
           r == LoadMPQ(fs, paths, mpqName)
       IN  /\ searchPaths' = paths
           /\ archive' = r.archive
           /\ log' = r.events
    /\ lastOp' = "LoadMPQ"
    /\ repeated' = FALSE
    /\ UNCHANGED <<winVars, envVars, optVars, progVars, fs, scenario>>

NextResolve == \E mpqName \in ResolveNames : CallLoadMPQ(mpqName)

SpecResolve == InitResolve /\ [][NextResolve]_vars

----------------------------------------------------------------------------
(* The archive globals and the entry points that load and release them *)

DiabdatUpper == <<"DIABDAT.MPQ">>
DiabdatLower == <<"diabdat.mpq">>
HellfireMpq == <<"hellfire.mpq">>
HfmonkMpq == <<"hfmonk.mpq">>
HfbardMpq == <<"hfbard.mpq">>
HfbarbMpq == <<"hfbarb.mpq">>
HfmusicMpq == <<"hfmusic.mpq">>
HfvoiceMpq == <<"hfvoice.mpq">>

Live(a) == IF a = NullOpt THEN 0 ELSE 1

Max(a, b) == IF a >= b THEN a ELSE b

\* What an entry point has done so far: the globals, the diagnostics, prompts
\* and archive operations in order, and per slot the most archives open at once.
Start(slots) == [mpq |-> slots, events |-> <<>>, peak |-> [s \in Slots |-> Live(slots[s])]]

Emit(st, e) == [st EXCEPT !.events = Append(@, e)]

\* an empty slot released as if it held an archive
Reset_ClosesEmpty(st, slot) ==
    [st EXCEPT !.mpq[slot] = NullOpt,
               !.events = Append(@, Event("Close", <<slot>>, st.mpq[slot]))]

\* the assignment of std::nullopt left out
Reset_KeepsArchive(st, slot) == st

\* `slot = std::nullopt`: the archive the slot holds, if any, is closed
Reset(st, slot) ==
    [st EXCEPT !.mpq[slot] = NullOpt,
               !.events = IF st.mpq[slot] # NullOpt
                          THEN Append(@, Event("Close", <<slot>>, st.mpq[slot]))
                          ELSE @]

\* closing the archive held before also ends the new one when both are of the same file
Assign_ReleasesSharedFile(st, slot, disk, paths, mpqName) ==
    LET r == LoadMPQ(disk, paths, mpqName)
        old == st.mpq[slot]
    IN  [mpq    |-> [st.mpq EXCEPT ![slot] = IF old # NullOpt /\ old = r.archive
                                             THEN NullOpt ELSE r.archive],
         events |-> st.events \o r.events \o
                    (IF old # NullOpt THEN <<Event("Close", <<slot>>, old)>> ELSE <<>>),
         peak   |-> [st.peak EXCEPT ![slot] = Max(@, Live(old) + Live(r.archive))]]

\* `slot = LoadMPQ(paths, mpqName)`: LoadMPQ runs while the slot still holds
\* its archive; the assignment then closes that archive and stores the result
Assign(st, slot, disk, paths, mpqName) ==
    LET r == LoadMPQ(disk, paths, mpqName)
        old == st.mpq[slot]
    IN  [mpq    |-> [st.mpq EXCEPT ![slot] = r.archive],
         events |-> st.events \o r.events \o
                    (IF old # NullOpt THEN <<Event("Close", <<slot>>, old)>> ELSE <<>>),
         peak   |-> [st.peak EXCEPT ![slot] = Max(@, Live(old) + Live(r.archive))]]

\* sotw_mpq left out of the teardown
CleanupOrder_WithoutSotw == <<"spawn", "diabdat", "hellfire", "hfmonk", "hfbard", "hfbarb",
                              "hfmusic", "hfvoice", "lang", "font">>

\* init.cpp:176-186: the order in which init_cleanup resets the globals
CleanupOrder == <<"spawn", "diabdat", "hellfire", "hfmonk", "hfbard", "hfbarb",
                  "hfmusic", "hfvoice", "lang", "font", "sotw">>

RECURSIVE ResetAll(_, _, _)
ResetAll(st, order, i) ==
    IF i > Len(order) THEN st ELSE ResetAll(Reset(st, order[i]), order, i + 1)

\* the hero and the stash written after the archives are released
init_cleanup_SavesAfterRelease ==
    /\ exitStatus = Running
    /\ LET s1 == ResetAll(Start(mpq), CleanupOrder, 1)
           s2 == IF gbIsMultiplayer /\ gbRunGame
                 THEN Emit(Emit(s1, Event("pfile_write_hero", EmptyString, EmptyString)),
                           Event("sfile_write_stash", EmptyString, EmptyString))
                 ELSE s1
           s3 == Emit(s2, Event("NetClose", EmptyString, EmptyString))
       IN  /\ mpq' = s3.mpq
           /\ log' = s3.events
           /\ peakLive' = s3.peak
    /\ lastOp' = "init_cleanup"
    /\ repeated' = (lastOp = "init_cleanup")
    /\ UNCHANGED <<winVars, envVars, optVars, fs, gbBard, gbBarbarian, exitStatus, scenario,
                   searchPaths, archive>>

\* init.cpp:162-190
init_cleanup ==
    /\ exitStatus = Running
    /\ LET s0 == Start(mpq)
           s1 == IF gbIsMultiplayer /\ gbRunGame
                 THEN Emit(Emit(s0, Event("pfile_write_hero", EmptyString, EmptyString)),
                           Event("sfile_write_stash", EmptyString, EmptyString))
                 ELSE s0
           s2 == ResetAll(s1, CleanupOrder, 1)
           s3 == Emit(s2, Event("NetClose", EmptyString, EmptyString))
       IN  /\ mpq' = s3.mpq
           /\ log' = s3.events
           /\ peakLive' = s3.peak
    /\ lastOp' = "init_cleanup"
    /\ repeated' = (lastOp = "init_cleanup")
    /\ UNCHANGED <<winVars, envVars, optVars, fs, gbBard, gbBarbarian, exitStatus, scenario,
                   searchPaths, archive>>

\* a missing sotw.mpq treated like a missing hellfire.mpq
LoadCoreArchives_PromptsOnMissing ==
    /\ exitStatus = Running
    /\ LET paths == GetMPQSearchPaths(basePath, prefPath, configPath, xdgDataDirs)
           s1 == Assign(Start(mpq), "sotw", fs, paths, SotwMpq)
           s2 == IF s1.mpq["sotw"] = NullOpt
                 THEN Emit(s1, Event("InsertCDDlg", SotwMpq, EmptyString)) ELSE s1
           s3 == Assign(s2, "font", fs, paths, FontsMpq)
       IN  /\ mpq' = s3.mpq
           /\ log' = s3.events
           /\ peakLive' = s3.peak
    /\ lastOp' = "LoadCoreArchives"
    /\ repeated' = (lastOp = "LoadCoreArchives")
    /\ UNCHANGED <<winVars, envVars, optVars, fs, gbBard, gbBarbarian, exitStatus, scenario,
                   searchPaths, archive>>

\* init.cpp:192-205
LoadCoreArchives ==
    /\ exitStatus = Running
    /\ LET paths == GetMPQSearchPaths(basePath, prefPath, configPath, xdgDataDirs)
           s1 == Assign(Start(mpq), "sotw", fs, paths, SotwMpq)
           s2 == Assign(s1, "font", fs, paths, FontsMpq)
       IN  /\ mpq' = s2.mpq
           /\ log' = s2.events
           /\ peakLive' = s2.peak
    /\ lastOp' = "LoadCoreArchives"
    /\ repeated' = (lastOp = "LoadCoreArchives")
    /\ UNCHANGED <<winVars, envVars, optVars, fs, gbBard, gbBarbarian, exitStatus, scenario,
                   searchPaths, archive>>

DotMpq == <<".mpq">>

\* the language phase also releasing the font archive
LoadLanguageArchive_ResetsFont ==
    /\ exitStatus = Running
    /\ LET s1 == Reset(Reset(Start(mpq), "lang"), "font")
           code == <<languageCode>>
           s2 == IF code # <<"en">>
                 THEN Assign(s1, "lang", fs,
                             GetMPQSearchPaths(basePath, prefPath, configPath, xdgDataDirs),
                             code \o DotMpq)
                 ELSE s1
       IN  /\ mpq' = s2.mpq
           /\ log' = s2.events
           /\ peakLive' = s2.peak
    /\ lastOp' = "LoadLanguageArchive"
    /\ repeated' = (lastOp = "LoadLanguageArchive")
    /\ UNCHANGED <<winVars, envVars, optVars, fs, gbBard, gbBarbarian, exitStatus, scenario,
                   searchPaths, archive>>

\* the locale not compared with "en"
LoadLanguageArchive_LoadsDefaultToo ==
    /\ exitStatus = Running
    /\ LET s1 == Reset(Start(mpq), "lang")
           code == <<languageCode>>
           s2 == Assign(s1, "lang", fs,
                        GetMPQSearchPaths(basePath, prefPath, configPath, xdgDataDirs),
                        code \o DotMpq)
       IN  /\ mpq' = s2.mpq
           /\ log' = s2.events
           /\ peakLive' = s2.peak
    /\ lastOp' = "LoadLanguageArchive"
    /\ repeated' = (lastOp = "LoadLanguageArchive")
    /\ UNCHANGED <<winVars, envVars, optVars, fs, gbBard, gbBarbarian, exitStatus, scenario,
                   searchPaths, archive>>

\* init.cpp:207-225
LoadLanguageArchive ==
    /\ exitStatus = Running
    /\ LET s1 == Reset(Start(mpq), "lang")
           code == <<languageCode>>
           s2 == IF code # <<"en">>
                 THEN Assign(s1, "lang", fs,
                             GetMPQSearchPaths(basePath, prefPath, configPath, xdgDataDirs),
                             code \o DotMpq)
                 ELSE s1
       IN  /\ mpq' = s2.mpq
           /\ log' = s2.events
           /\ peakLive' = s2.peak
    /\ lastOp' = "LoadLanguageArchive"
    /\ repeated' = (lastOp = "LoadLanguageArchive")
    /\ UNCHANGED <<winVars, envVars, optVars, fs, gbBard, gbBarbarian, exitStatus, scenario,
                   searchPaths, archive>>

\* InsertCDDlg(name): the blocking insert-media dialog; it returns when dismissed
InsertCDDlg(st, name) == Emit(st, Event("InsertCDDlg", name, EmptyString))

\* UiErrorOkDialog(caption, text): the blocking error dialog
UiErrorOkDialog(st) == Emit(st, Event("UiErrorOkDialog", EmptyString, EmptyString))

\* diablo_quit(exitStatus): the process ends with that status
diablo_quit(st, status) == Emit(st, Event("diablo_quit", <<status>>, EmptyString))

\* the repackaged name tried before the name of the original release
LoadBaseArchive_LowerFirst(st, disk, paths) ==
    LET s1 == Assign(st, "diabdat", disk, paths, DiabdatLower)
    IN  IF s1.mpq["diabdat"] = NullOpt
        THEN Assign(s1, "diabdat", disk, paths, DiabdatUpper)
        ELSE s1

\* init.cpp:259-263
LoadBaseArchive(st, disk, paths) ==
    LET s1 == Assign(st, "diabdat", disk, paths, DiabdatUpper)
    IN  IF s1.mpq["diabdat"] = NullOpt
        THEN Assign(s1, "diabdat", disk, paths, DiabdatLower)
        ELSE s1

\* init.cpp:265-271, titleFound being FindAsset("ui_art\\title.pcx").ok()
CheckTitleAsset(st, headless, titleFound) ==
    IF ~headless /\ ~titleFound
    THEN InsertCDDlg(Emit(st, Event("LogError SDL_GetError", EmptyString, EmptyString)),
                     DiabdatLower)
    ELSE st

\* init.cpp:273-275
LoadHellfireArchive(st, disk, paths) ==
    LET s1 == Assign(st, "hellfire", disk, paths, HellfireMpq)
    IN  IF s1.mpq["hellfire"] = NullOpt THEN InsertCDDlg(s1, HellfireMpq) ELSE s1

\* init.cpp:277-285, the flags being <<gbBard, gbBarbarian>>
LoadSubPacks(st, flags, disk, paths) ==
    LET s1 == Assign(st, "hfmonk", disk, paths, HfmonkMpq)
        s2 == Assign(s1, "hfbard", disk, paths, HfbardMpq)
        bard == IF s2.mpq["hfbard"] # NullOpt THEN TRUE ELSE flags[1]
        s3 == Assign(s2, "hfbarb", disk, paths, HfbarbMpq)
        barbarian == IF s3.mpq["hfbarb"] # NullOpt THEN TRUE ELSE flags[2]
        s4 == Assign(s3, "hfmusic", disk, paths, HfmusicMpq)
        s5 == Assign(s4, "hfvoice", disk, paths, HfvoiceMpq)
    IN  [st |-> s5, gbBard |-> bard, gbBarbarian |-> barbarian]

\* the voice pack left out of the condition
MandatoryMissing_VoiceNotChecked(slots) ==
    slots["hfmonk"] = NullOpt \/ slots["hfmusic"] = NullOpt

\* init.cpp:287-290: the condition of the fatal path
MandatoryMissing(slots) ==
    slots["hfmonk"] = NullOpt \/ slots["hfmusic"] = NullOpt \/ slots["hfvoice"] = NullOpt

\* While InsertCDDlg("hellfire.mpq") is up the user may put hellfire.mpq into
\* the game directory: the disk LoadGameArchives goes on with
DiskAfterPrompt(disk, mediaInserted) ==
    IF mediaInserted THEN [disk EXCEPT ![<<Slash, "a", Slash>> \o HellfireMpq] = "ok"] ELSE disk

\* init.cpp:227-292, the !UNPACKED_MPQS branch
LoadGameArchives ==
    /\ exitStatus = Running
    /\ \E titleFound \in BOOLEAN, mediaInserted \in BOOLEAN :
        LET paths == GetMPQSearchPaths(basePath, prefPath, configPath, xdgDataDirs)
            s1 == LoadBaseArchive(Start(mpq), fs, paths)
            s2 == CheckTitleAsset(s1, HeadlessMode, titleFound)
            s3 == LoadHellfireArchive(s2, fs, paths)
            disk == DiskAfterPrompt(fs, mediaInserted)
            r == LoadSubPacks(IF mediaInserted
                              THEN Emit(s3, Event("media inserted", HellfireMpq, EmptyString))
                              ELSE s3,
                              <<gbBard, gbBarbarian>>, disk, paths)
            fatal == MandatoryMissing(r.st.mpq)
            s4 == IF fatal THEN diablo_quit(UiErrorOkDialog(r.st), "1") ELSE r.st
        IN  /\ mediaInserted => (scenario = "expansion" /\ s3.mpq["hellfire"] = NullOpt)
            /\ fs' = disk
            /\ mpq' = s4.mpq
            /\ log' = s4.events
            /\ peakLive' = s4.peak
            /\ gbBard' = r.gbBard
            /\ gbBarbarian' = r.gbBarbarian
            /\ exitStatus' = IF fatal THEN "exit 1" ELSE exitStatus
    /\ lastOp' = "LoadGameArchives"
    /\ repeated' = (lastOp = "LoadGameArchives")
    /\ UNCHANGED <<winVars, envVars, optVars, scenario, searchPaths, archive>>

----------------------------------------------------------------------------
(* The environment: files appear, vanish or get damaged; the locale changes; *)
(* a game starts or ends.  In one run the environment changes one thing:     *)
(* the files of one family of archives, the locale, or the game session.     *)

LanguageCodes == {"en", "de", "pl"}

LanguageMpqs == {<<c>> \o DotMpq : c \in LanguageCodes \ {"en"}}

MpqNames == {DiabdatUpper, DiabdatLower, HellfireMpq, HfmonkMpq, HfbardMpq, HfbarbMpq,
             HfmusicMpq, HfvoiceMpq, SotwMpq, FontsMpq} \cup LanguageMpqs

GameDir == <<Slash, "a", Slash>>

Scenarios == {"base", "expansion", "class", "language", "core", "session"}

\* the archives whose files the environment touches in a scenario
VolatileNames(sc) ==
    CASE sc = "base" -> {DiabdatUpper, DiabdatLower}
      [] sc = "expansion" -> {HellfireMpq, HfmonkMpq, HfmusicMpq, HfvoiceMpq}
      [] sc = "class" -> {HfbardMpq, HfbarbMpq}
      [] sc = "language" -> LanguageMpqs
      [] sc = "core" -> {SotwMpq, FontsMpq}
      [] OTHER -> {}

\* the directories it touches them in: the game directory, and the working
\* directory too for the archives that are resolved on their own
VolatileDirs(sc) ==
    IF sc \in {"expansion", "class"} THEN {GameDir} ELSE {GameDir, EmptyString}

\* what it makes of them: present or absent, and damaged too for the archives
\* with a single name that are not tied to the locale
VolatileStatus(sc) == IF sc \in {"base", "language"} THEN {"absent", "ok"} ELSE Status

VolatileFiles(sc) == {d \o n : d \in VolatileDirs(sc), n \in VolatileNames(sc)}

\* every archive in the game directory, under the names of the original release
FullInstall(files) ==
    [f \in files |-> IF \E n \in MpqNames \ {DiabdatLower} : f = GameDir \o n
                     THEN "ok" ELSE "absent"]

Init ==
    /\ scenario \in Scenarios
    /\ basePath = GameDir
    /\ prefPath = GameDir
    /\ configPath = GameDir
    /\ xdgDataDirs = [set |-> TRUE, value |-> EmptyString]
    /\ fs = FullInstall(FilesOf(GetMPQSearchPaths(basePath, prefPath, configPath, xdgDataDirs),
                                MpqNames))
    /\ languageCode = "en"
    /\ HeadlessMode \in (IF scenario = "base" THEN BOOLEAN ELSE {FALSE})
    /\ gbIsMultiplayer = FALSE
    /\ gbRunGame = FALSE
    /\ InitProgram

\* no entry point is running: the globals stay, the record of the last entry point is dropped
Idle ==
    /\ log' = <<>>
    /\ peakLive' = [s \in Slots |-> Live(mpq[s])]
    /\ UNCHANGED <<mpq, gbBard, gbBarbarian, exitStatus>>

ChangeFile(f, st) ==
    /\ exitStatus = Running
    /\ f \in VolatileFiles(scenario)
    /\ st \in VolatileStatus(scenario)
    /\ fs[f] # st
    /\ fs' = [fs EXCEPT ![f] = st]
    /\ lastOp' = "ChangeFile"
    /\ repeated' = FALSE
    /\ Idle
    /\ UNCHANGED <<winVars, envVars, optVars, scenario, searchPaths, archive>>

SetLanguage(code) ==
    /\ exitStatus = Running
    /\ scenario = "language"
    /\ languageCode # code
    /\ languageCode' = code
    /\ lastOp' = "SetLanguage"
    /\ repeated' = FALSE
    /\ Idle
    /\ UNCHANGED <<winVars, envVars, HeadlessMode, gbIsMultiplayer, gbRunGame, fs,
                   scenario, searchPaths, archive>>

\* gbRunGame and gbIsMultiplayer as the game loop sets them
SetGame(run, multi) ==
    /\ exitStatus = Running
    /\ scenario = "session"
    /\ <<gbRunGame, gbIsMultiplayer>> # <<run, multi>>
    /\ gbRunGame' = run
    /\ gbIsMultiplayer' = multi
    /\ lastOp' = "SetGame"
    /\ repeated' = FALSE
    /\ Idle
    /\ UNCHANGED <<winVars, envVars, languageCode, HeadlessMode, fs,
                   scenario, searchPaths, archive>>

Next ==
    \/ LoadCoreArchives
    \/ LoadLanguageArchive
    \/ LoadGameArchives
    \/ init_cleanup
    \/ \E f \in DOMAIN fs, st \in Status : ChangeFile(f, st)
    \/ \E code \in LanguageCodes : SetLanguage(code)
    \/ \E run, multi \in BOOLEAN : SetGame(run, multi)

Spec == Init /\ [][Next]_vars

----------------------------------------------------------------------------
(* The window: init_create_window and MainWndProc (SDL2 build, !USE_SDL1) *)

WindowEvents == {"SDL_WINDOWEVENT_HIDDEN", "SDL_WINDOWEVENT_SHOWN", "SDL_WINDOWEVENT_EXPOSED",
                 "SDL_WINDOWEVENT_SIZE_CHANGED", "SDL_WINDOWEVENT_LEAVE", "SDL_WINDOWEVENT_CLOSE",
                 "SDL_WINDOWEVENT_FOCUS_LOST", "SDL_WINDOWEVENT_FOCUS_GAINED",
                 "SDL_WINDOWEVENT_MOVED"}

\* the events the event loop hands to MainWndProc
SdlEvents == [type : {"SDL_WINDOWEVENT"}, window : WindowEvents]
                \cup {[type |-> "SDL_KEYDOWN", window |-> "none"]}

Call(name) == Event(name, EmptyString, EmptyString)

InitWindow ==
    /\ basePath = GameDir
    /\ prefPath = GameDir
    /\ configPath = GameDir
    /\ xdgDataDirs = [set |-> TRUE, value |-> EmptyString]
    /\ fs = <<>>
    /\ languageCode = "en"
    /\ HeadlessMode = FALSE
    /\ gbIsMultiplayer = FALSE
    /\ gbRunGame = FALSE
    /\ scenario = "window"
    /\ InitProgram

\* init.cpp:294-303, spawned being the result of SpawnWindow(PROJECT_NAME)
init_create_window ==
    /\ exitStatus = Running
    /\ ~windowCreated
    /\ \E spawned \in BOOLEAN :
        IF spawned
        THEN /\ gbActive' = TRUE
             /\ windowCreated' = TRUE
             /\ log' = <<Call("dx_init"), Call("SDL_DisableScreenSaver")>>
             /\ UNCHANGED exitStatus
        ELSE /\ exitStatus' = "app_fatal"
             /\ log' = <<Call("app_fatal")>>
             /\ UNCHANGED <<gbActive, windowCreated>>
    /\ lastOp' = "init_create_window"
    /\ UNCHANGED <<envVars, optVars, fs, mpq, gbBard, gbBarbarian, peakLive, scenario,
                   searchPaths, archive, repeated, sgbMouseDown, LastMouseButtonAction,
                   gamePaused, lastEvent>>

\* init.cpp:310-317: gbActive after MainWndProc has handled a window event
ActiveAfter(windowEvent, active) ==
    CASE windowEvent = "SDL_WINDOWEVENT_HIDDEN" -> FALSE
      [] windowEvent = "SDL_WINDOWEVENT_SHOWN" -> FALSE
      [] OTHER -> active

\* init.cpp:310-341: the calls MainWndProc makes for a window event
CallsFor(windowEvent) ==
    CASE windowEvent \in {"SDL_WINDOWEVENT_SHOWN", "SDL_WINDOWEVENT_EXPOSED",
                          "SDL_WINDOWEVENT_LEAVE"} -> <<Call("RedrawEverything")>>
      [] windowEvent = "SDL_WINDOWEVENT_SIZE_CHANGED" -> <<Call("ReinitializeHardwareCursor")>>
      [] windowEvent = "SDL_WINDOWEVENT_CLOSE" -> <<Event("diablo_quit", <<"0">>, EmptyString)>>
      [] windowEvent = "SDL_WINDOWEVENT_FOCUS_LOST" -> <<Call("diablo_focus_pause")>>
      [] windowEvent = "SDL_WINDOWEVENT_FOCUS_GAINED" -> <<Call("diablo_focus_unpause")>>
      [] windowEvent = "SDL_WINDOWEVENT_HIDDEN" -> <<>>
      [] OTHER -> <<Call("LogVerbose Unhandled SDL_WINDOWEVENT")>>

\* init.cpp:305-341
MainWndProc(event) ==
    /\ exitStatus = Running
    /\ windowCreated
    /\ IF event.type # "SDL_WINDOWEVENT"
       THEN /\ log' = <<>>
            /\ lastEvent' = "not a window event"
            /\ UNCHANGED <<gbActive, sgbMouseDown, LastMouseButtonAction, gamePaused, exitStatus>>
       ELSE /\ gbActive' = ActiveAfter(event.window, gbActive)
            /\ sgbMouseDown' = IF event.window = "SDL_WINDOWEVENT_LEAVE"
                               THEN "CLICK_NONE" ELSE sgbMouseDown
            /\ LastMouseButtonAction' = IF event.window = "SDL_WINDOWEVENT_LEAVE"
                                        THEN "None" ELSE LastMouseButtonAction
            /\ gamePaused' = CASE event.window = "SDL_WINDOWEVENT_FOCUS_LOST" -> TRUE
                                [] event.window = "SDL_WINDOWEVENT_FOCUS_GAINED" -> FALSE
                                [] OTHER -> gamePaused
            /\ exitStatus' = IF event.window = "SDL_WINDOWEVENT_CLOSE" THEN "exit 0" ELSE exitStatus
            /\ log' = CallsFor(event.window)
            /\ lastEvent' = event.window
    /\ lastOp' = "MainWndProc"
    /\ UNCHANGED <<envVars, optVars, fs, mpq, gbBard, gbBarbarian, peakLive, scenario,
                   searchPaths, archive, repeated, windowCreated>>

\* a mouse button goes down over the window: what the input code stores
MouseButton(button, action) ==
    /\ exitStatus = Running
    /\ windowCreated
    /\ <<sgbMouseDown, LastMouseButtonAction>> # <<button, action>>
    /\ sgbMouseDown' = button
    /\ LastMouseButtonAction' = action
    /\ lastOp' = "MouseButton"
    /\ log' = <<>>
    /\ UNCHANGED <<envVars, optVars, fs, mpq, gbBard, gbBarbarian, exitStatus, peakLive,
                   scenario, searchPaths, archive, repeated, gbActive, gamePaused,
                   windowCreated, lastEvent>>

NextWindow ==
    \/ init_create_window
    \/ \E event \in SdlEvents : MainWndProc(event)
    \/ \E button \in {"CLICK_LEFT", "CLICK_RIGHT"}, action \in {"Attack", "Spell"} :
           MouseButton(button, action)

SpecWindow == InitWindow /\ [][NextWindow]_vars

----------------------------------------------------------------------------
(* Claims about the search path builder *)

NoTwoEqual(v) == \A i, j \in 1..Len(v) : i # j => v[i] # v[j]

\* C1: the list GetMPQSearchPaths returns never holds two entries that are
\* exactly string-equal, whatever the base, pref and config directories and
\* the XDG_DATA_DIRS entries are.
C1_NoDuplicatePaths ==
    lastOp = "GetMPQSearchPaths" => NoTwoEqual(searchPaths)

\* v without the entries that repeat an earlier entry
RECURSIVE FirstOccurrences(_)
FirstOccurrences(v) ==
    IF v = <<>> THEN <<>>
    ELSE LET front == FirstOccurrences(PopBack(v))
             last == v[Len(v)]
         IN  IF \E i \in 1..Len(front) : front[i] = last THEN front ELSE Append(front, last)

\* C2: the list is the base, pref and config paths in that order, a root that
\* equals an earlier root dropped and the earlier one kept in place, then the
\* platform roots in the order given, then the empty string last.
C2_PriorityOrder ==
    lastOp = "GetMPQSearchPaths" =>
        LET roots == FirstOccurrences(<<basePath, prefPath, configPath>>)
            n == Len(searchPaths)
            extras == SubSeq(searchPaths, Len(roots) + 1, n - 1)
        IN  /\ n >= Len(roots) + 1
            /\ SubSeq(searchPaths, 1, Len(roots)) = roots
            /\ searchPaths[n] = EmptyString
            /\ IF xdgDataDirs.set
               THEN /\ Len(extras) = Len(SplitByChar(xdgDataDirs.value, Colon))
                    /\ \A i \in 1..Len(extras) :
                           extras[i] = XdgRoot(SplitByChar(xdgDataDirs.value, Colon)[i])
               ELSE extras = <<UsrLocalShare, UsrShare>>

\* the inputs [A, A, B] give [A, B, ...]
C2_Witness ==
    /\ lastOp = "GetMPQSearchPaths"
    /\ basePath = prefPath
    /\ configPath # basePath
    /\ searchPaths[1] = basePath
    /\ searchPaths[2] = configPath
    /\ Len(searchPaths) > 3

----------------------------------------------------------------------------
(* Claims about LoadMPQ *)

CountKind(events, kind) == Cardinality({i \in 1..Len(events) : events[i].kind = kind})

\* the name LoadMPQ was called with: every call opens at least one candidate
CalledName == log[1].name

\* positions of the search paths where the called archive has the given status
PathsWith(st) == {i \in 1..Len(searchPaths) : FileStatus(fs, searchPaths[i] \o CalledName) = st}

\* the first search path where the called archive opens, 0 when there is none
FirstOk == IF PathsWith("ok") = {} THEN 0
           ELSE CHOOSE i \in PathsWith("ok") : \A j \in PathsWith("ok") : i <= j

\* positions of the candidates LoadMPQ gets to open
Probed == IF FirstOk = 0 THEN 1..Len(searchPaths) ELSE 1..FirstOk

\* C4: a structural error at one search path does not stop the probe: the
\* archive of the first path that opens is returned; the error diagnostics
\* are as many as the probed candidates that failed structurally, and each
\* names a candidate that failed structurally, never one that is absent.
C4_StructuralErrorContinues ==
    lastOp = "LoadMPQ" =>
        /\ FirstOk # 0 => archive = searchPaths[FirstOk] \o CalledName
        /\ CountKind(log, "LogError") = Cardinality(PathsWith("corrupt") \cap Probed)
        /\ \A i \in 1..Len(log) :
               log[i].kind = "LogError" =>
                   FileStatus(fs, log[i].path \o log[i].name) = "corrupt"

\* P1 corrupt, P2 absent, P3 opens
C4_Witness ==
    /\ lastOp = "LoadMPQ"
    /\ FileStatus(fs, searchPaths[1] \o CalledName) = "corrupt"
    /\ FileStatus(fs, searchPaths[2] \o CalledName) = "absent"
    /\ archive = searchPaths[3] \o CalledName
    /\ CountKind(log, "LogError") = 1

\* C5: when no search path opens, LoadMPQ returns the empty result and logs
\* "Missing" exactly once if and only if no candidate failed structurally.
C5_MissingIffNoStructuralError ==
    (lastOp = "LoadMPQ" /\ FirstOk = 0) =>
        /\ archive = NullOpt
        /\ CountKind(log, "LogVerbose Missing") <= 1
        /\ CountKind(log, "LogVerbose Missing") = 1 <=> PathsWith("corrupt") = {}

----------------------------------------------------------------------------
(* Claims about the entry points *)

CurrentPaths == GetMPQSearchPaths(basePath, prefPath, configPath, xdgDataDirs)

\* the candidates of the base archive: every search path under the name of the
\* original release, then every search path under the repackaged name
BaseCandidates ==
    [i \in 1..Len(CurrentPaths) |-> CurrentPaths[i] \o DiabdatUpper]
        \o [i \in 1..Len(CurrentPaths) |-> CurrentPaths[i] \o DiabdatLower]

FirstBaseOk ==
    LET ok == {i \in 1..Len(BaseCandidates) : FileStatus(fs, BaseCandidates[i]) = "ok"}
    IN  IF ok = {} THEN 0 ELSE CHOOSE i \in ok : \A j \in ok : i <= j

IsBaseOpen(e) == e.kind = "Open" /\ e.name \in {DiabdatUpper, DiabdatLower}

\* the files of the base archive LoadGameArchives tried to open, in order
BaseOpens ==
    LET opens == SelectSeq(log, IsBaseOpen)
    IN  [i \in 1..Len(opens) |-> opens[i].path \o opens[i].name]

\* C3: LoadGameArchives holds the base archive of the first candidate that
\* opens, the candidates taken name by name (DIABDAT.MPQ, then diabdat.mpq)
\* and within a name search path by search path; it opens the candidates up to
\* that one and none after it.
C3_FirstVariantPathWins ==
    lastOp = "LoadGameArchives" =>
        /\ mpq["diabdat"] = IF FirstBaseOk = 0 THEN NullOpt ELSE BaseCandidates[FirstBaseOk]
        /\ BaseOpens = SubSeq(BaseCandidates, 1,
                              IF FirstBaseOk = 0 THEN Len(BaseCandidates) ELSE FirstBaseOk)

\* only (V2, P1) and (V1, P2) exist: (V1, P2) is held
C3_Witness ==
    /\ lastOp = "LoadGameArchives"
    /\ Len(CurrentPaths) = 2
    /\ FileStatus(fs, CurrentPaths[1] \o DiabdatUpper) = "absent"
    /\ FileStatus(fs, CurrentPaths[1] \o DiabdatLower) = "ok"
    /\ FileStatus(fs, CurrentPaths[2] \o DiabdatUpper) = "ok"
    /\ FileStatus(fs, CurrentPaths[2] \o DiabdatLower) = "absent"
    /\ mpq["diabdat"] = CurrentPaths[2] \o DiabdatUpper

\* C6: at every point of every sequence of entry points, a slot has at most
\* one archive open: the archive a slot holds is closed before the archive
\* that replaces it is opened.
C6_AtMostOneLivePerSlot ==
    \A s \in Slots : peakLive[s] <= 1

\* C7: after init_cleanup both feature flags are false.
C7_CleanupResetsFlags ==
    lastOp = "init_cleanup" => (~gbBard /\ ~gbBarbarian)

\* C8: after init_cleanup every archive slot is empty.
C8_CleanupEmptiesSlots ==
    lastOp = "init_cleanup" => \A s \in Slots : mpq[s] = NullOpt

\* init_cleanup ran with every archive this file loads held
C8_Witness ==
    /\ lastOp = "init_cleanup"
    /\ \A s \in Slots \ {"spawn"} :
           \E i \in 1..Len(log) : log[i].kind = "Close" /\ log[i].name = <<s>>

Unresolvable(mpqName) ==
    \A i \in 1..Len(CurrentPaths) : FileStatus(fs, CurrentPaths[i] \o mpqName) # "ok"

AnyMandatoryUnresolvable ==
    Unresolvable(HfmonkMpq) \/ Unresolvable(HfmusicMpq) \/ Unresolvable(HfvoiceMpq)

\* C9: when LoadGameArchives does not find a class pack, the flag of that pack
\* is false when it finishes, whatever the flag was before, and with the
\* mandatory packs found there is no fatal dialog and the process goes on.
C9_AbsentClassPackClearsFlag ==
    lastOp = "LoadGameArchives" =>
        /\ Unresolvable(HfbardMpq) => ~gbBard
        /\ Unresolvable(HfbarbMpq) => ~gbBarbarian
        /\ ~AnyMandatoryUnresolvable =>
               /\ exitStatus = Running
               /\ CountKind(log, "UiErrorOkDialog") = 0

\* C10: when a mandatory sub-pack (hfmonk, hfmusic, hfvoice) is found on no
\* search path, LoadGameArchives shows the error dialog exactly once and then
\* ends the process with status 1; otherwise it shows none and returns.
C10_MandatoryMissingIsFatal ==
    lastOp = "LoadGameArchives" =>
        IF AnyMandatoryUnresolvable
        THEN /\ exitStatus = "exit 1"
             /\ CountKind(log, "UiErrorOkDialog") = 1
             /\ Len(log) >= 2
             /\ log[Len(log) - 1].kind = "UiErrorOkDialog"
             /\ log[Len(log)] = Event("diablo_quit", <<"1">>, EmptyString)
        ELSE /\ exitStatus = Running
             /\ CountKind(log, "UiErrorOkDialog") = 0
             /\ CountKind(log, "diablo_quit") = 0
             /\ ~MandatoryMissing(mpq)

\* only the voice pack is missing
C10_Witness ==
    /\ lastOp = "LoadGameArchives"
    /\ Unresolvable(HfvoiceMpq)
    /\ ~Unresolvable(HfmonkMpq)
    /\ ~Unresolvable(HfmusicMpq)
    /\ ~Unresolvable(HellfireMpq)
    /\ exitStatus = "exit 1"
    /\ CountKind(log, "UiErrorOkDialog") = 1

\* positions in the record of the last entry point of the events of a kind about a name
EventsAt(kind, name) == {i \in 1..Len(log) : log[i].kind = kind /\ log[i].name = name}

\* C11: when LoadGameArchives does not find hellfire.mpq, the insert-media
\* prompt comes before the missing-files dialog, hellfire.mpq is probed again
\* after the prompt is dismissed, and media inserted at the prompt is picked up.
C11_HellfireRetriedAfterPrompt ==
    (lastOp = "LoadGameArchives" /\ EventsAt("InsertCDDlg", HellfireMpq) # {}) =>
        /\ \A i \in EventsAt("InsertCDDlg", HellfireMpq), j \in EventsAt("UiErrorOkDialog", EmptyString) :
               i < j
        /\ \A i \in EventsAt("InsertCDDlg", HellfireMpq) :
               \E j \in EventsAt("Open", HellfireMpq) : j > i
        /\ ~Unresolvable(HellfireMpq) => mpq["hellfire"] # NullOpt

\* the archive named after the active locale
LocaleMpq == <<languageCode>> \o DotMpq

\* the first search path where a file opens as an archive, NullOpt when none does
FirstThatOpens(mpqName) ==
    LET ok == {i \in 1..Len(CurrentPaths) : FileStatus(fs, CurrentPaths[i] \o mpqName) = "ok"}
    IN  IF ok = {} THEN NullOpt
        ELSE CurrentPaths[CHOOSE i \in ok : \A j \in ok : i <= j] \o mpqName

\* C12: after LoadLanguageArchive with a non-default locale the language slot
\* holds the archive resolved for that locale, or nothing when there is none;
\* the archive held before (of an earlier locale) is closed before the first
\* candidate is probed, and the slot never has two archives open.
C12_OnlySecondLocaleHeld ==
    (lastOp = "LoadLanguageArchive" /\ languageCode # "en") =>
        /\ mpq["lang"] = FirstThatOpens(LocaleMpq)
        /\ \A i \in EventsAt("Close", <<"lang">>), j \in 1..Len(log) :
               log[j].kind = "Open" => i < j
        /\ peakLive["lang"] <= 1

\* the slot held the archive of "de"; the locale is "pl" now
C12_Witness ==
    /\ lastOp = "LoadLanguageArchive"
    /\ languageCode = "pl"
    /\ \E i \in EventsAt("Close", <<"lang">>) : log[i].path = CurrentPaths[1] \o <<"de">> \o DotMpq
    /\ mpq["lang"] = CurrentPaths[1] \o <<"pl">> \o DotMpq

\* C13: when the locale is "en" LoadLanguageArchive leaves the language slot
\* empty, whatever it held, and opens nothing; otherwise the files it opens
\* are all of the archive named after the locale code.
C13_DefaultLocaleLoadsNothing ==
    lastOp = "LoadLanguageArchive" =>
        IF languageCode = "en"
        THEN mpq["lang"] = NullOpt /\ CountKind(log, "Open") = 0
        ELSE /\ EventsAt("Open", LocaleMpq) # {}
             /\ CountKind(log, "Open") = Cardinality(EventsAt("Open", LocaleMpq))

\* back to "en" with the slot holding an archive
C13_Witness ==
    /\ lastOp = "LoadLanguageArchive"
    /\ languageCode = "en"
    /\ EventsAt("Close", <<"lang">>) # {}

\* C14: init_cleanup run right after init_cleanup leaves the slots and the
\* feature flags as the first run left them, and releases no archive.
C14_CleanupIdempotent ==
    [][(lastOp = "init_cleanup" /\ lastOp' = "init_cleanup") =>
           /\ mpq' = mpq
           /\ gbBard' = gbBard
           /\ gbBarbarian' = gbBarbarian
           /\ CountKind(log', "Close") = 0]_vars

\* the second of two runs, the class packs having been loaded before the first
C14_Witness ==
    /\ lastOp = "init_cleanup"
    /\ repeated
    /\ gbBard
    /\ gbBarbarian

IsRelease(e) == e.kind = "Close"

\* C15: in init_cleanup, with a multiplayer game running, the hero and then
\* the stash are written once each before any archive is released; otherwise
\* neither is written.
C15_SaveBeforeRelease ==
    lastOp = "init_cleanup" =>
        IF gbIsMultiplayer /\ gbRunGame
        THEN /\ Len(log) >= 2
             /\ log[1].kind = "pfile_write_hero"
             /\ log[2].kind = "sfile_write_stash"
             /\ CountKind(log, "pfile_write_hero") = 1
             /\ CountKind(log, "sfile_write_stash") = 1
             /\ \A i \in 1..Len(log) : IsRelease(log[i]) => i > 2
        ELSE /\ CountKind(log, "pfile_write_hero") = 0
             /\ CountKind(log, "sfile_write_stash") = 0

\* a multiplayer game is running and archives are held when init_cleanup runs
C15_Witness ==
    /\ lastOp = "init_cleanup"
    /\ gbIsMultiplayer
    /\ gbRunGame
    /\ CountKind(log, "Close") >= 2

LoadPhases == {"LoadCoreArchives", "LoadLanguageArchive", "LoadGameArchives"}

\* C16: a load phase run right after a run of the same phase, the disk and
\* the locale unchanged since the first run began, leaves every slot and both
\* feature flags as the first run left them.
C16_LoadPhasesIdempotent ==
    [][(/\ lastOp \in LoadPhases
        /\ lastOp' = lastOp
        /\ CountKind(log, "media inserted") = 0
        /\ fs' = fs) =>
           /\ mpq' = mpq
           /\ gbBard' = gbBard
           /\ gbBarbarian' = gbBarbarian]_vars

\* the second of two runs of LoadGameArchives, everything found
C16_Witness ==
    /\ lastOp = "LoadGameArchives"
    /\ repeated
    /\ CountKind(log, "Close") >= 7
    /\ mpq["hfbard"] # NullOpt
    /\ gbBard

\* C17: LoadCoreArchives shows no prompt and never ends the process; the sotw
\* and font slots each end up empty or holding an archive that opened.
C17_CoreArchivesNonFatal ==
    lastOp = "LoadCoreArchives" =>
        /\ exitStatus = Running
        /\ CountKind(log, "InsertCDDlg") = 0
        /\ CountKind(log, "UiErrorOkDialog") = 0
        /\ CountKind(log, "diablo_quit") = 0
        /\ mpq["sotw"] = FirstThatOpens(SotwMpq)
        /\ mpq["font"] = FirstThatOpens(FontsMpq)
        /\ \A s \in {"sotw", "font"} : mpq[s] = NullOpt \/ FileStatus(fs, mpq[s]) = "ok"

\* sotw.mpq damaged in the game directory and good in the working directory,
\* fonts.mpq nowhere
C17_Witness ==
    /\ lastOp = "LoadCoreArchives"
    /\ FileStatus(fs, CurrentPaths[1] \o SotwMpq) = "corrupt"
    /\ mpq["sotw"] = CurrentPaths[2] \o SotwMpq
    /\ Unresolvable(FontsMpq)
    /\ mpq["font"] = NullOpt

\* C18: gbActive is true exactly when the game window is the active window:
\* true once init_create_window has created the window, false after a HIDDEN
\* event, true after a SHOWN event.
C18_ActiveTracksWindow ==
    /\ (lastOp = "init_create_window" /\ windowCreated) => gbActive
    /\ lastEvent = "SDL_WINDOWEVENT_HIDDEN" => ~gbActive
    /\ lastEvent = "SDL_WINDOWEVENT_SHOWN" => gbActive

\* C19: whenever a class-pack flag is true, the matching archive slot is held:
\* gbBard implies hfbard is open, gbBarbarian implies hfbarb is open.
C19_FlagImpliesSlotHeld ==
    /\ gbBard => mpq["hfbard"] # NullOpt
    /\ gbBarbarian => mpq["hfbarb"] # NullOpt

OthersKept(changed) == \A slot \in Slots \ changed : mpq'[slot] = mpq[slot]

\* C20: LoadLanguageArchive changes no slot other than lang, LoadCoreArchives
\* changes no slot other than font and sotw, and neither changes gbBard or
\* gbBarbarian.
C20_LoadPhasesFrame ==
    [][/\ lastOp' = "LoadLanguageArchive" =>
            (OthersKept({"lang"}) /\ UNCHANGED <<gbBard, gbBarbarian>>)
       /\ lastOp' = "LoadCoreArchives" =>
            (OthersKept({"font", "sotw"}) /\ UNCHANGED <<gbBard, gbBarbarian>>)]_vars

\* a language load and a core load, each with archives of the other phases held
C20_Witness ==
    /\ lastOp \in {"LoadLanguageArchive", "LoadCoreArchives"}
    /\ mpq["lang"] # NullOpt
    /\ mpq["font"] # NullOpt
    /\ mpq["hfbard"] # NullOpt
    /\ gbBard

====
